---- MODULE Spec2Model ----
(***************************************************************************)
(* A model of the JotForm API client (src/jotform.py): the request         *)
(* pipeline fetch_url, the parameter builders and the public operations.   *)
(*                                                                         *)
(* Python strings are sequences of one-character strings; a dict is a      *)
(* function from keys to values; None is the value PyNone.                 *)
(***************************************************************************)
EXTENDS Integers, Sequences, FiniteSets, TLC

(***************************************************************************)
(* Strings                                                                 *)
(***************************************************************************)

\* Python's None where a string is expected: a one-element sequence whose
\* element is no character, so it differs from every string.
PyNone == <<"None">>

\* s[i:] for 0-based i (the tail of s from its (i+1)-th character)
SliceFrom(s, i) == SubSeq(s, i + 1, Len(s))

\* s[:i] for 0-based i
SliceTo(s, i) == SubSeq(s, 1, i)

\* str.find(c) for a one-character c: the 0-based index of the first c, or -1
RECURSIVE FindFrom(_, _, _)
FindFrom(s, c, i) ==
    IF i > Len(s) THEN -1
    ELSE IF s[i] = c THEN i - 1
    ELSE FindFrom(s, c, i + 1)

Find(s, c) == FindFrom(s, c, 1)

\* str.rfind(c) for a one-character c: the 0-based index of the last c, or -1
RECURSIVE RFindFrom(_, _, _)
RFindFrom(s, c, i) ==
    IF i < 1 THEN -1
    ELSE IF s[i] = c THEN i - 1
    ELSE RFindFrom(s, c, i - 1)

RFind(s, c) == RFindFrom(s, c, Len(s))

\* c in s
Contains(s, c) == Find(s, c) # -1

\* s.endswith(t)
EndsWith(s, t) == Len(s) >= Len(t) /\ SubSeq(s, Len(s) - Len(t) + 1, Len(s)) = t

\* s.startswith(t)
StartsWith(s, t) == Len(s) >= Len(t) /\ SubSeq(s, 1, Len(t)) = t

\* s.split(c) for a one-character separator c: never empty, keeps empty
\* pieces; piece is the piece being read at position i, pieces those before it
RECURSIVE SplitLoop(_, _, _, _, _)
SplitLoop(s, c, i, piece, pieces) ==
    IF i > Len(s) THEN Append(pieces, piece)
    ELSE IF s[i] = c THEN SplitLoop(s, c, i + 1, <<>>, Append(pieces, piece))
    ELSE SplitLoop(s, c, i + 1, Append(piece, s[i]), pieces)

Split(s, c) == SplitLoop(s, c, 1, <<>>, <<>>)

\* c.join(parts)
RECURSIVE Join(_, _)
Join(parts, c) ==
    IF parts = <<>> THEN <<>>
    ELSE IF Len(parts) = 1 THEN parts[1]
    ELSE parts[1] \o <<c>> \o Join(Tail(parts), c)

\* the elements of a sequence that are not in the set dropped, in order
RECURSIVE Without(_, _)
Without(parts, dropped) ==
    IF parts = <<>> THEN <<>>
    ELSE (IF Head(parts) \in dropped THEN <<>> ELSE <<Head(parts)>>)
         \o Without(Tail(parts), dropped)

\* all sequences over the set chars of length at most n
RECURSIVE SeqsUpTo(_, _)
SeqsUpTo(chars, n) ==
    IF n = 0 THEN {<<>>}
    ELSE LET shorter == SeqsUpTo(chars, n - 1)
         IN  shorter \cup {Append(s, c) : s \in shorter, c \in chars}

(***************************************************************************)
(* pathlib.PurePosixPath (Python 3.11): parsing, name, suffix, with_suffix *)
(***************************************************************************)

\* _PosixFlavour.splitroot: the root of a path is '/', or '//' for exactly
\* two leading slashes, or '' for a relative path
PathRoot(p) ==
    IF p # <<>> /\ p[1] = "/"
    THEN IF Len(p) >= 2 /\ p[2] = "/" /\ ~(Len(p) >= 3 /\ p[3] = "/")
         THEN <<"/", "/">>
         ELSE <<"/">>
    ELSE <<>>

\* _Flavour.parse_parts: the components of a path; empty components and '.'
\* are dropped, '..' is kept
PathParts(p) ==
    Without(Split(p, "/"), {<<>>, <<".">>})

\* PurePath.name: the final component, '' if there is none
LastPart(parts) == IF parts = <<>> THEN <<>> ELSE parts[Len(parts)]

PathName(p) == LastPart(PathParts(p))

\* PurePath.suffix of a name: from the last dot on, unless that dot is the
\* first or the last character of the name
NameSuffix(name) ==
    LET i == RFind(name, ".")
    IN  IF 0 < i /\ i < Len(name) - 1 THEN SliceFrom(name, i) ELSE <<>>

\* str(PurePath): the root followed by the components joined by '/'
PathStr(root, parts) ==
    IF root = <<>> /\ parts = <<>> THEN <<".">> ELSE root \o Join(parts, "/")

\* the result of pathlib raising ValueError (an empty name)
ValueError == <<"ValueError">>

\* the name with_suffix gives the final component: the suffix is appended
\* to a name that has none, and replaces the suffix of a name that has one
ReplaceSuffix(name, old_suffix, suffix) ==
    IF old_suffix = <<>> THEN name \o suffix
    ELSE SliceTo(name, Len(name) - Len(old_suffix)) \o suffix

\* PurePath.with_suffix on a parsed path, as a string
WithSuffixParsed(root, parts, name, suffix) ==
    IF name = <<>> THEN ValueError
    ELSE PathStr(root, SliceTo(parts, Len(parts) - 1)
                       \o <<ReplaceSuffix(name, NameSuffix(name), suffix)>>)

\* str(pathlib.Path(url).with_suffix(suffix))
WithSuffixOfParts(root, parts, suffix) ==
    WithSuffixParsed(root, parts, LastPart(parts), suffix)

WithSuffix(url, suffix) == WithSuffixOfParts(PathRoot(url), PathParts(url), suffix)

(***************************************************************************)
(* urllib.parse: urlparse, urlunparse, urljoin                             *)
(***************************************************************************)

\* urlparse of scheme://netloc/path, given the netloc and path together
UrlparseAuthority(scheme, afternet, s) ==
    [scheme |-> scheme,
     netloc |-> IF s = -1 THEN afternet ELSE SliceTo(afternet, s),
     path |-> IF s = -1 THEN <<>> ELSE SliceFrom(afternet, s)]

UrlparseRest(u, c, afternet) ==
    UrlparseAuthority(SliceTo(u, c), afternet, Find(afternet, "/"))

UrlparseAt(u, c) ==
    IF c > 0 /\ StartsWith(SliceFrom(u, c + 1), <<"/", "/">>)
    THEN UrlparseRest(u, c, SliceFrom(u, c + 3))
    ELSE [scheme |-> <<>>, netloc |-> <<>>, path |-> u]

\* urlparse of an absolute URL scheme://netloc/path or of a reference that is
\* a path alone (no scheme, netloc, params, query or fragment)
Urlparse(u) == UrlparseAt(u, Find(u, ":"))

\* urlunparse((scheme, netloc, path, '', '', ''))
Urlunparse(scheme, netloc, path) ==
    LET url == IF netloc # <<>> /\ path # <<>> /\ path[1] # "/"
               THEN <<"/">> \o path ELSE path
    IN  scheme \o <<":", "/", "/">> \o netloc \o url

\* the loop of urljoin that resolves '.' and '..' segments
RECURSIVE ResolveSegments(_, _)
ResolveSegments(segments, resolved_path) ==
    IF segments = <<>> THEN resolved_path
    ELSE LET seg == Head(segments)
         IN  IF seg = <<".", ".">>
             THEN ResolveSegments(Tail(segments),
                      IF resolved_path = <<>> THEN <<>>
                      ELSE SliceTo(resolved_path, Len(resolved_path) - 1))
             ELSE IF seg = <<".">>
             THEN ResolveSegments(Tail(segments), resolved_path)
             ELSE ResolveSegments(Tail(segments), Append(resolved_path, seg))

\* urljoin's base_parts: the base path split, without its last segment
\* unless that is empty
BaseParts(split_base) ==
    IF split_base[Len(split_base)] # <<>>
    THEN SliceTo(split_base, Len(split_base) - 1)
    ELSE split_base

\* urljoin's filter of the empty segments between the first and the last
FilterInner(joined) ==
    <<joined[1]>> \o Without(SubSeq(joined, 2, Len(joined) - 1), {<<>>})
    \o <<joined[Len(joined)]>>

\* urljoin's segments: an absolute path stands alone, a relative path
\* follows the base's
Segments(bpath, path) ==
    IF path[1] = "/" THEN Split(path, "/")
    ELSE FilterInner(BaseParts(Split(bpath, "/")) \o Split(path, "/"))

\* urljoin's resolved_path, joined
ResolvedPath(segments, resolved) ==
    Join(IF segments[Len(segments)] \in {<<".">>, <<".", ".">>}
         THEN Append(resolved, <<>>) ELSE resolved, "/")

JoinedPath(segments) == ResolvedPath(segments, ResolveSegments(segments, <<>>))

OrRoot(joined_path) == IF joined_path = <<>> THEN <<"/">> ELSE joined_path

UrljoinParsed(b, path) ==
    Urlunparse(b.scheme, b.netloc, OrRoot(JoinedPath(Segments(b.path, path))))

\* urljoin(base, url) for an absolute base and a reference url that is a
\* non-empty path
Urljoin(base, url) == UrljoinParsed(Urlparse(base), Urlparse(url).path)

(***************************************************************************)
(* Dicts and parameter bags                                                *)
(***************************************************************************)

\* {} : the dict with no key
EmptyDict == <<>>

\* d[k] = v on a dict d (a new key is added, an existing key is overwritten)
DictSet(d, k, v) == [x \in DOMAIN d \cup {k} |-> IF x = k THEN v ELSE d[x]]

\* what an operation hands to fetch_url as params: None, a dict (items), or
\* an already encoded JSON string (text)
NoParams == [kind |-> "none", items |-> EmptyDict, text |-> <<>>]
DictParams(d) == [kind |-> "dict", items |-> d, text |-> <<>>]
TextParams(s) == [kind |-> "str", items |-> EmptyDict, text |-> s]

\* the truth value Python gives params in `if params:`
ParamsTruthy(params) ==
    \/ params.kind = "dict" /\ params.items # EmptyDict
    \/ params.kind = "str" /\ params.text # <<>>

\* the truth value Python gives a string (a dict key of kwargs)
StrTruthy(s) == s # <<>>

\* an optional dict argument (filters): None, or the dict's items in
\* insertion order as <<key, value>> pairs
NoneDict == [none |-> TRUE, pairs |-> <<>>]
SomeDict(pairs) == [none |-> FALSE, pairs |-> pairs]

\* the truth value Python gives an optional dict: None and {} are false
DictTruthy(d) == ~d.none /\ d.pairs # <<>>

\* json.dumps of a dict of strings to strings: {"k": "v", "k2": "v2"}
RECURSIVE JsonItems(_)
JsonItems(pairs) ==
    IF pairs = <<>> THEN <<>>
    ELSE LET item == <<"\"">> \o pairs[1][1] \o <<"\"", ":", " ", "\"">> \o pairs[1][2] \o <<"\"">>
         IN  IF Len(pairs) = 1 THEN item
             ELSE item \o <<",", " ">> \o JsonItems(Tail(pairs))

JsonDumps(d) == <<"{">> \o JsonItems(d.pairs) \o <<"}">>

\* the dict comprehension {k: v for k, v in kwargs.items() if k}
KeepTruthyKeys(kwargs) == [k \in {x \in DOMAIN kwargs : StrTruthy(x)} |-> kwargs[k]]

\* JotformAPIClient.create_conditions
create_conditions(offset, limit, filters, order_by) ==
    LET kwargs == (<<"o", "f", "f", "s", "e", "t">> :> offset) @@ (<<"l", "i", "m", "i", "t">> :> limit) @@ (<<"o", "r", "d", "e", "r", "b", "y">> :> order_by)
        params == KeepTruthyKeys(kwargs)
    IN  IF DictTruthy(filters)
        THEN DictSet(params, <<"f", "i", "l", "t", "e", "r">>, JsonDumps(filters))
        ELSE params

\* JotformAPIClient.create_history_query
create_history_query(action, date, sort_by, start_date, end_date) ==
    LET kwargs == (<<"a", "c", "t", "i", "o", "n">> :> action) @@ (<<"d", "a", "t", "e">> :> date) @@ (<<"s", "o", "r", "t", "_", "b", "y">> :> sort_by)
                  @@ (<<"s", "t", "a", "r", "t", "D", "a", "t", "e">> :> start_date) @@ (<<"e", "n", "d", "D", "a", "t", "e">> :> end_date)
    IN  KeepTruthyKeys(kwargs)

(***************************************************************************)
(* Key flattening                                                          *)
(***************************************************************************)

\* a flattening that splits at the last underscore instead of the first
CreateSubmissionKeyAtLast(key) ==
    IF Contains(key, "_")
    THEN <<"s", "u", "b", "m", "i", "s", "s", "i", "o", "n", "[">> \o SliceTo(key, RFind(key, "_")) \o <<"]", "[">>
         \o SubSeq(key, RFind(key, "_") + 2, Len(key)) \o <<"]">>
    ELSE <<"s", "u", "b", "m", "i", "s", "s", "i", "o", "n", "[">> \o key \o <<"]">>

\* the key create_form_submission stores a submission key under
CreateSubmissionKey(key) ==
    IF Contains(key, "_")
    THEN <<"s", "u", "b", "m", "i", "s", "s", "i", "o", "n", "[">> \o SliceTo(key, Find(key, "_")) \o <<"]", "[">>
         \o SubSeq(key, Find(key, "_") + 2, Len(key)) \o <<"]">>
    ELSE <<"s", "u", "b", "m", "i", "s", "s", "i", "o", "n", "[">> \o key \o <<"]">>

\* the key edit_submission stores a submission key under
EditSubmissionKey(key) ==
    IF Contains(key, "_") /\ key # <<"c", "r", "e", "a", "t", "e", "d", "_", "a", "t">>
    THEN <<"s", "u", "b", "m", "i", "s", "s", "i", "o", "n", "[">> \o SliceTo(key, Find(key, "_")) \o <<"]", "[">>
         \o SubSeq(key, Find(key, "_") + 2, Len(key)) \o <<"]">>
    ELSE <<"s", "u", "b", "m", "i", "s", "s", "i", "o", "n", "[">> \o key \o <<"]">>

\* the loop `for key in submission` of create_form_submission, over the
\* items of submission in iteration order
RECURSIVE CreateSubmissionLoop(_, _)
CreateSubmissionLoop(submission, sub) ==
    IF submission = <<>> THEN sub
    ELSE CreateSubmissionLoop(Tail(submission),
             DictSet(sub, CreateSubmissionKey(submission[1][1]), submission[1][2]))

\* the loop `for key in submission` of edit_submission
RECURSIVE EditSubmissionLoop(_, _)
EditSubmissionLoop(submission, sub) ==
    IF submission = <<>> THEN sub
    ELSE EditSubmissionLoop(Tail(submission),
             DictSet(sub, EditSubmissionKey(submission[1][1]), submission[1][2]))

\* the loop of create_form_question, edit_form_question (outer = question)
\* and set_form_properties (outer = properties): params[outer[key]] = value
RECURSIVE BracketLoop(_, _, _)
BracketLoop(outer, pairs, params) ==
    IF pairs = <<>> THEN params
    ELSE BracketLoop(outer, Tail(pairs),
             DictSet(params, outer \o <<"[">> \o pairs[1][1] \o <<"]">>, pairs[1][2]))

\* the loops of create_form over a form: a sequence of <<group, value>> in
\* iteration order, where value is a sequence of <<k, v>> pairs and, except
\* for the properties group, v is a sequence of <<a, leaf>> pairs
\* an innermost loop that leaves the field out of the key: key[a]
RECURSIVE CreateFormLeavesWithoutField(_, _, _, _)
CreateFormLeavesWithoutField(key, k, v, params) ==
    IF v = <<>> THEN params
    ELSE CreateFormLeavesWithoutField(key, k, Tail(v),
             DictSet(params, key \o <<"[">> \o v[1][1] \o <<"]">>, v[1][2]))

RECURSIVE CreateFormLeaves(_, _, _, _)
CreateFormLeaves(key, k, v, params) ==
    IF v = <<>> THEN params
    ELSE CreateFormLeaves(key, k, Tail(v),
             DictSet(params, key \o <<"[">> \o k \o <<"]", "[">> \o v[1][1] \o <<"]">>, v[1][2]))

RECURSIVE CreateFormGroup(_, _, _, _)
CreateFormGroup(key, value, rest, params) ==
    IF rest = <<>> THEN params
    ELSE IF key = <<"p", "r", "o", "p", "e", "r", "t", "i", "e", "s">>
    THEN CreateFormGroup(key, value, Tail(rest), BracketLoop(key, value, params))
    ELSE CreateFormGroup(key, value, Tail(rest),
             CreateFormLeaves(key, rest[1][1], rest[1][2], params))

RECURSIVE CreateFormLoop(_, _)
CreateFormLoop(form, params) ==
    IF form = <<>> THEN params
    ELSE CreateFormLoop(Tail(form),
             CreateFormGroup(form[1][1], form[1][2], form[1][2], params))

(***************************************************************************)
(* Bounds and the arguments callers pass                                   *)
(***************************************************************************)

\* the longest id (form id, submission id, question id, property key, ...)
\* made of IdChars
MaxIdLen == 1

\* the longest submission key, and the most keys in one submission
MaxKeyLen == 2
MaxKeys == 2

\* the size of the largest form: the number of keys it has at its three
\* levels (groups, fields and properties) taken together
MaxFormSize == 6

\* the number of operations a caller invokes on one client
MaxCalls == 2

\* ids are strings of digits and dots, a numeric id, and two names with a dot
IdChars == {"1", "."}
Ids == SeqsUpTo(IdChars, MaxIdLen) \cup {<<"1", "2", "3">>, <<"a", ".", "b">>, <<".", "j", "s", "o", "n">>}

\* the API keys a client is constructed with, and the values callers pass
ApiKeys == {<<"K", "E", "Y", "1">>, <<"K", "E", "Y", "2">>}
Values == {<<"x">>, <<"y">>}

\* submission keys: question ids with sub-fields separated by underscores,
\* and the reserved field created_at
KeyChars == {"a", "_"}
SubmissionKeys == SeqsUpTo(KeyChars, MaxKeyLen) \cup {<<"c", "r", "e", "a", "t", "e", "d", "_", "a", "t">>}

\* dicts in iteration order: the sequences of at most n <<key, value>> pairs
\* with distinct keys
RECURSIVE PairSeqs(_, _, _)
PairSeqs(keys, values, n) ==
    IF n = 0 THEN {<<>>}
    ELSE LET shorter == PairSeqs(keys, values, n - 1)
         IN  shorter \cup
             {Append(s, <<k, v>>) :
                 s \in {t \in shorter : Len(t) = n - 1}, k \in keys, v \in values}

DistinctKeys(pairs) == \A i, j \in 1..Len(pairs) : pairs[i][1] = pairs[j][1] => i = j

Submissions == {s \in PairSeqs(SubmissionKeys, Values, MaxKeys) : DistinctKeys(s)}

\* the submissions of the documented scenarios
SampleSubmissions ==
    { <<>>,
      << <<<<"n", "a", "m", "e", "_", "f", "i", "r", "s", "t">>, <<"x">>>>, <<<<"e", "m", "a", "i", "l">>, <<"y">>>> >>,
      << <<<<"c", "r", "e", "a", "t", "e", "d", "_", "a", "t">>, <<"x">>>>, <<<<"s", "t", "a", "t", "u", "s", "_", "n", "e", "w">>, <<"y">>>> >>,
      << <<<<"a", "_", "b", "_", "c">>, <<"x">>>> >> }

\* question and property dicts, in iteration order
SampleDicts ==
    { <<>>,
      << <<<<"t", "y", "p", "e">>, <<"x">>>> >>,
      << <<<<"t", "y", "p", "e">>, <<"x">>>>, <<<<"t", "e", "x", "t">>, <<"y">>>> >> }

\* dicts passed through as they are (settings, report, userDetails, credentials)
BagKeys == {<<"a">>, <<"b">>}
Bags == {DictParams(d) : d \in UNION {[K -> Values] : K \in SUBSET BagKeys}}

\* payloads passed through as JSON text (submissions, questions, properties, forms)
JsonTexts == {TextParams(<<>>), TextParams(<<"{", "}">>)}

\* the optional arguments of the list operations
Offsets == {PyNone, <<"0">>}
Limits == {PyNone, <<"5">>}
OrderBys == {PyNone, <<"i", "d">>}
Filters == {NoneDict, SomeDict(<<>>), SomeDict(<< <<<<"s", "t", "a", "t", "u", "s">>, <<"A", "C", "T", "I", "V", "E">>>> >>)}

\* the optional arguments of get_history
Actions == {PyNone, <<"a", "l", "l">>}
Dates == {PyNone, <<"l", "a", "s", "t", "W", "e", "e", "k">>}
SortBys == {PyNone, <<"A", "S", "C">>}
StartDates == {PyNone, <<"0", "1", "/", "0", "1", "/", "2", "0", "2", "0">>}
EndDates == {PyNone, <<"1", "2", "/", "3", "1", "/", "2", "0", "2", "0">>}

\* forms for create_form: <<group, value>> pairs in iteration order
SampleForms ==
    { <<>>,
      << <<<<"p", "r", "o", "p", "e", "r", "t", "i", "e", "s">>, << <<<<"t", "i", "t", "l", "e">>, <<"x">>>>, <<<<"h", "e", "i", "g", "h", "t">>, <<"y">>>> >> >> >>,
      << <<<<"q", "u", "e", "s", "t", "i", "o", "n", "s">>, << <<<<"0">>, << <<<<"t", "y", "p", "e">>, <<"x">>>>, <<<<"t", "e", "x", "t">>, <<"y">>>> >> >>,
                            <<<<"1">>, << <<<<"t", "y", "p", "e">>, <<"y">>>> >> >> >> >>,
         <<<<"p", "r", "o", "p", "e", "r", "t", "i", "e", "s">>, << <<<<"t", "i", "t", "l", "e">>, <<"x">>>> >> >>,
         <<<<"e", "m", "a", "i", "l", "s">>, <<>> >> >> }

\* the dicts, in iteration order and with distinct keys, of size exactly n:
\* a key k has a value of valuesOf[k][m] for some size m, and counts 1 + m
RECURSIVE DictsOfSize(_, _)
DictsOfSize(valuesOf, n) ==
    IF n = 0 THEN {<<>>}
    ELSE UNION {{Append(d, <<k, v>>) :
                    d \in {e \in DictsOfSize(valuesOf, n - 1 - m) :
                              \A i \in 1..Len(e) : e[i][1] # k},
                    v \in valuesOf[k][m]} :
                k \in DOMAIN valuesOf, m \in 0..(n - 1)}

\* the keys of the three levels of a form
GroupNames == {<<"p", "r", "o", "p", "e", "r", "t", "i", "e", "s">>, <<"q", "u", "e", "s", "t", "i", "o", "n", "s">>, <<"e", "m", "a", "i", "l", "s">>}
FieldKeys == {<<"0">>, <<"1">>}
PropertyKeys == {<<"t", "y", "p", "e">>, <<"t", "e", "x", "t">>}

\* by size: the leaf values (size 0), the dicts of properties, and the dicts
\* of fields, each field with its dict of properties
LeafValues == [m \in 0..MaxFormSize |-> IF m = 0 THEN Values ELSE {}]
PropertyDicts ==
    [m \in 0..MaxFormSize |-> DictsOfSize([k \in PropertyKeys |-> LeafValues], m)]
FieldDicts ==
    [m \in 0..MaxFormSize |-> DictsOfSize([k \in FieldKeys |-> PropertyDicts], m)]

\* every form of at most MaxFormSize keys: the group properties holds
\* properties, every other group holds fields
Forms ==
    UNION {DictsOfSize([g \in GroupNames |->
                           IF g = <<"p", "r", "o", "p", "e", "r", "t", "i", "e", "s">> THEN PropertyDicts ELSE FieldDicts], n) :
              n \in 0..MaxFormSize}

\* what the HTTP layer can answer: a decoded JSON value is an object with
\* some of the envelope's fields, or not an object (an array)
JsonNull == "None"
JsonValues == {JsonNull, "data"}
EnvelopeFields == {"content", "message"}
MessageValues == {"success"}
JsonObjects == {[object |-> TRUE, fields |-> f] :
                   f \in {g \in UNION {[F -> JsonValues \cup MessageValues] :
                                           F \in SUBSET EnvelopeFields} :
                             /\ "content" \in DOMAIN g => g["content"] \in JsonValues
                             /\ "message" \in DOMAIN g => g["message"] \in MessageValues}}
JsonArray == [object |-> FALSE, fields |-> <<>>]
JsonResponses == JsonObjects \cup {JsonArray}

(***************************************************************************)
(* The client, the call in progress and the HTTP layer                     *)
(***************************************************************************)

VARIABLES
    api_key,     \* self.api_key
    debug_mode,  \* self.debug_mode
    pc,          \* "idle", or "waiting" while a call blocks in requests.request
    op,          \* the operation in progress, "none" when idle
    args,        \* its arguments
    resource,    \* the resource path it passes to fetch_url (fetch_url's url)
    logged,      \* what the call in progress has written to the logger
    request,     \* the HTTP request in flight
    response,    \* what the HTTP layer answered to the last request
    result,      \* how the last call ended: the value returned or the error raised
    nCalls,      \* operations invoked
    nSent,       \* HTTP requests issued
    nDone,       \* operations that returned or raised
    blocked      \* the calls of other threads that wait in requests.request

vars == <<api_key, debug_mode, pc, op, args, resource, logged, request, response, result,
          nCalls, nSent, nDone, blocked>>

\* class attributes of JotformAPIClient
base_url == <<"h", "t", "t", "p", "s", ":", "/", "/", "a", "p", "i", ".", "j", "o", "t", "f", "o", "r", "m", ".", "c", "o", "m", "/">>
api_version == <<"v", "1">>

NoRequest == [method |-> "none", url |-> <<>>, headers |-> [apiKey |-> <<>>],
              params |-> NoParams]
NoResponse == [status |-> "none", json_response |-> JsonArray]
NoResult == [kind |-> "none", value |-> "None"]
Returned(v) == [kind |-> "returned", value |-> v]
Raised(e) == [kind |-> "raised", value |-> e]

\* JotformAPIClient.__init__
Init ==
    /\ api_key \in ApiKeys
    /\ debug_mode \in BOOLEAN
    /\ pc = "idle"
    /\ op = "none"
    /\ args = <<>>
    /\ resource = <<>>
    /\ logged = <<>>
    /\ request = NoRequest
    /\ response = NoResponse
    /\ result = NoResult
    /\ nCalls = 0
    /\ nSent = 0
    /\ nDone = 0
    /\ blocked = <<>>

\* a caller invokes the operation name with the arguments a
Invoke(name, a) ==
    /\ pc = "idle"
    /\ nCalls < MaxCalls
    /\ op' = name
    /\ args' = a
    /\ nCalls' = nCalls + 1
    /\ response' = NoResponse
    /\ result' = NoResult
    /\ UNCHANGED <<api_key, debug_mode, nDone, blocked>>

\* JotformAPIClient.log, for the messages of one fetch_url
LogMessages(url, params) ==
    IF debug_mode
    THEN <<[text |-> <<"f", "e", "t", "c", "h", "i", "n", "g", " ", "u", "r", "l", " ">> \o url, params |-> NoParams]>>
         \o (IF ParamsTruthy(params) THEN <<[text |-> <<>>, params |-> params]>> ELSE <<>>)
    ELSE <<>>

\* fetch_url's versioned = urljoin(self.base_url, self.api_version)
versioned == Urljoin(base_url, api_version)

\* fetch_url's endpoint = str(pathlib.Path(url).with_suffix('.json'))
Endpoint(url) == WithSuffix(url, <<".", "j", "s", "o", "n">>)

\* the URL fetch_url requests for the resource path url
RequestUrl(url) == Urljoin(versioned, Endpoint(url))

\* headers that leave the API key out
RequestHeadersWithoutKey == [apiKey |-> <<>>]

\* the headers fetch_url sends
RequestHeaders == [apiKey |-> api_key]

\* requests.request(method=method, url=url, headers=headers, params=params):
\* the request leaves and the call blocks until the HTTP layer answers
requests_request(method, url, headers, params) ==
    /\ request' = [method |-> method, url |-> url, headers |-> headers, params |-> params]
    /\ nSent' = nSent + 1
    /\ pc' = "waiting"

\* fetch_url from `self.log('fetching url ' + url)` on, for the final url
FetchJoined(url, params, method) ==
    /\ logged' = LogMessages(url, params)
    /\ requests_request(method, url, RequestHeaders, params)

\* fetch_url from `url = urljoin(versioned, endpoint)` on. with_suffix raises
\* ValueError for a path without a final component; every operation passes a
\* path that starts with a component of its own.
FetchEndpoint(endpoint, params, method) ==
    /\ endpoint # ValueError
    /\ FetchJoined(Urljoin(versioned, endpoint), params, method)

\* JotformAPIClient.fetch_url, up to the point where it blocks on the request
fetch_url(url, params, method) ==
    /\ resource' = url
    /\ FetchEndpoint(Endpoint(url), params, method)

\* an end of call that forgets the API key once logout_user is over
FinishAndForgetKey(r) ==
    /\ result' = r
    /\ pc' = "idle"
    /\ op' = "none"
    /\ args' = <<>>
    /\ resource' = <<>>
    /\ logged' = <<>>
    /\ request' = NoRequest
    /\ nDone' = nDone + 1
    /\ api_key' = IF op = "logout_user" THEN <<>> ELSE api_key
    /\ UNCHANGED <<debug_mode, nCalls, nSent, blocked>>

\* the call in progress ends with the result r: the frames of the operation
\* and of fetch_url are gone, and nothing was assigned to self
Finish(r) ==
    /\ result' = r
    /\ pc' = "idle"
    /\ op' = "none"
    /\ args' = <<>>
    /\ resource' = <<>>
    /\ logged' = <<>>
    /\ request' = NoRequest
    /\ nDone' = nDone + 1
    /\ UNCHANGED <<api_key, debug_mode, nCalls, nSent, blocked>>

\* a get that falls back on the message when there is no content
GetContentOrMessage(json_response) ==
    IF "content" \in DOMAIN json_response.fields
    THEN json_response.fields["content"]
    ELSE IF "message" \in DOMAIN json_response.fields
    THEN json_response.fields["message"]
    ELSE "None"

\* json_response.get('content')
GetContent(json_response) ==
    IF "content" \in DOMAIN json_response.fields
    THEN json_response.fields["content"]
    ELSE "None"

\* a failed request that is sent again instead of raising
RequestFailsAndRetries ==
    /\ pc = "waiting"
    /\ nSent < 2 * MaxCalls
    /\ nSent' = nSent + 1
    /\ UNCHANGED <<api_key, debug_mode, pc, op, args, resource, logged, request,
                   response, result, nCalls, nDone, blocked>>

\* requests.request raises (no connection, timeout of the transport, ...):
\* fetch_url lets the error through
RequestFails ==
    /\ pc = "waiting"
    /\ response' = [status |-> "failed", json_response |-> JsonArray]
    /\ Finish(Raised("RequestException"))

\* the response arrives and its body is not JSON: resp.json() raises
ResponseNotJson ==
    /\ pc = "waiting"
    /\ response' = [status |-> "not_json", json_response |-> JsonArray]
    /\ Finish(Raised("JSONDecodeError"))

\* the response arrives with the JSON value json_response: fetch_url returns
\* its content, and a value that is no object has no get
ResponseJson(json_response) ==
    /\ pc = "waiting"
    /\ response' = [status |-> "json", json_response |-> json_response]
    /\ Finish(IF json_response.object
              THEN Returned(GetContent(json_response))
              ELSE Raised("AttributeError"))

(***************************************************************************)
(* Several threads on one client                                           *)
(***************************************************************************)

\* the frame of a call: the operation, its arguments and fetch_url's locals
CallFrame == [op |-> op, args |-> args, resource |-> resource, logged |-> logged,
              request |-> request]

\* the sequence s without its i-th element
RemoveAt(s, i) == SubSeq(s, 1, i - 1) \o SubSeq(s, i + 1, Len(s))

\* the operations whose calls are left waiting while other threads use the
\* client; the other threads call every operation
WaitingOps == {"get_user", "logout_user"}

\* while a call waits in requests.request the interpreter runs another
\* thread: the waiting call keeps its frame, and the client is free for the
\* other thread's call
Yield ==
    /\ pc = "waiting"
    /\ op \in WaitingOps
    /\ blocked' = Append(blocked, CallFrame)
    /\ pc' = "idle"
    /\ op' = "none"
    /\ args' = <<>>
    /\ resource' = <<>>
    /\ logged' = <<>>
    /\ request' = NoRequest
    /\ UNCHANGED <<api_key, debug_mode, response, result, nCalls, nSent, nDone>>

\* the thread of the i-th waiting call runs again, still inside
\* requests.request, with the frame it had
Resume(i) ==
    /\ pc = "idle"
    /\ i \in 1..Len(blocked)
    /\ blocked' = RemoveAt(blocked, i)
    /\ pc' = "waiting"
    /\ op' = blocked[i].op
    /\ args' = blocked[i].args
    /\ resource' = blocked[i].resource
    /\ logged' = blocked[i].logged
    /\ request' = blocked[i].request
    /\ UNCHANGED <<api_key, debug_mode, response, result, nCalls, nSent, nDone>>

(***************************************************************************)
(* The public operations: each builds its params and calls fetch_url       *)
(***************************************************************************)

\* JotformAPIClient.get_user
get_user ==
    /\ Invoke("get_user", <<>>)
    /\ fetch_url(<<"/", "u", "s", "e", "r">>,
                 NoParams, "GET")

\* JotformAPIClient.get_usage
get_usage ==
    /\ Invoke("get_usage", <<>>)
    /\ fetch_url(<<"/", "u", "s", "e", "r", "/", "u", "s", "a", "g", "e">>,
                 NoParams, "GET")

\* JotformAPIClient.get_forms
get_forms(offset, limit, filters, order_by) ==
    /\ Invoke("get_forms", [offset |-> offset, limit |-> limit, filters |-> filters, order_by |-> order_by])
    /\ fetch_url(<<"/", "u", "s", "e", "r", "/", "f", "o", "r", "m", "s">>,
                 DictParams(create_conditions(offset, limit, filters, order_by)), "GET")

\* JotformAPIClient.get_submissions
get_submissions(offset, limit, filters, order_by) ==
    /\ Invoke("get_submissions", [offset |-> offset, limit |-> limit, filters |-> filters, order_by |-> order_by])
    /\ fetch_url(<<"/", "u", "s", "e", "r", "/", "s", "u", "b", "m", "i", "s", "s", "i", "o", "n", "s">>,
                 DictParams(create_conditions(offset, limit, filters, order_by)), "GET")

\* JotformAPIClient.get_subusers
get_subusers ==
    /\ Invoke("get_subusers", <<>>)
    /\ fetch_url(<<"/", "u", "s", "e", "r", "/", "s", "u", "b", "u", "s", "e", "r", "s">>,
                 NoParams, "GET")

\* JotformAPIClient.get_folders
get_folders ==
    /\ Invoke("get_folders", <<>>)
    /\ fetch_url(<<"/", "u", "s", "e", "r", "/", "f", "o", "l", "d", "e", "r", "s">>,
                 NoParams, "GET")

\* JotformAPIClient.get_reports
get_reports ==
    /\ Invoke("get_reports", <<>>)
    /\ fetch_url(<<"/", "u", "s", "e", "r", "/", "r", "e", "p", "o", "r", "t", "s">>,
                 NoParams, "GET")

\* JotformAPIClient.get_settings
get_settings ==
    /\ Invoke("get_settings", <<>>)
    /\ fetch_url(<<"/", "u", "s", "e", "r", "/", "s", "e", "t", "t", "i", "n", "g", "s">>,
                 NoParams, "GET")

\* JotformAPIClient.update_settings
update_settings(settings) ==
    /\ Invoke("update_settings", [settings |-> settings])
    /\ fetch_url(<<"/", "u", "s", "e", "r", "/", "s", "e", "t", "t", "i", "n", "g", "s">>,
                 settings, "POST")

\* JotformAPIClient.get_history
get_history(action, date, sort_by, start_date, end_date) ==
    /\ Invoke("get_history", [action |-> action, date |-> date, sort_by |-> sort_by, start_date |-> start_date, end_date |-> end_date])
    /\ fetch_url(<<"/", "u", "s", "e", "r", "/", "h", "i", "s", "t", "o", "r", "y">>,
                 DictParams(create_history_query(action, date, sort_by, start_date, end_date)), "GET")

\* JotformAPIClient.get_form
get_form(id) ==
    /\ Invoke("get_form", [id |-> id])
    /\ fetch_url(<<"/", "f", "o", "r", "m", "/">> \o id,
                 NoParams, "GET")

\* JotformAPIClient.get_form_questions
get_form_questions(id) ==
    /\ Invoke("get_form_questions", [id |-> id])
    /\ fetch_url(<<"/", "f", "o", "r", "m", "/">> \o id \o <<"/", "q", "u", "e", "s", "t", "i", "o", "n", "s">>,
                 NoParams, "GET")

\* JotformAPIClient.get_form_question
get_form_question(id, qid) ==
    /\ Invoke("get_form_question", [id |-> id, qid |-> qid])
    /\ fetch_url(<<"/", "f", "o", "r", "m", "/">> \o id \o <<"/", "q", "u", "e", "s", "t", "i", "o", "n", "/">> \o qid,
                 NoParams, "GET")

\* JotformAPIClient.get_form_submissions
get_form_submissions(id, offset, limit, filters, order_by) ==
    /\ Invoke("get_form_submissions", [id |-> id, offset |-> offset, limit |-> limit, filters |-> filters, order_by |-> order_by])
    /\ fetch_url(<<"/", "f", "o", "r", "m", "/">> \o id \o <<"/", "s", "u", "b", "m", "i", "s", "s", "i", "o", "n", "s">>,
                 DictParams(create_conditions(offset, limit, filters, order_by)), "GET")

\* JotformAPIClient.create_form_submission
create_form_submission(id, submission) ==
    /\ Invoke("create_form_submission", [id |-> id, submission |-> submission])
    /\ fetch_url(<<"/", "f", "o", "r", "m", "/">> \o id \o <<"/", "s", "u", "b", "m", "i", "s", "s", "i", "o", "n", "s">>,
                 DictParams(CreateSubmissionLoop(submission, EmptyDict)), "POST")

\* JotformAPIClient.create_form_submissions
create_form_submissions(id, submissions) ==
    /\ Invoke("create_form_submissions", [id |-> id, submissions |-> submissions])
    /\ fetch_url(<<"/", "f", "o", "r", "m", "/">> \o id \o <<"/", "s", "u", "b", "m", "i", "s", "s", "i", "o", "n", "s">>,
                 submissions, "PUT")

\* JotformAPIClient.get_form_files
get_form_files(formID) ==
    /\ Invoke("get_form_files", [formID |-> formID])
    /\ fetch_url(<<"/", "f", "o", "r", "m", "/">> \o formID \o <<"/", "f", "i", "l", "e", "s">>,
                 NoParams, "GET")

\* JotformAPIClient.get_form_webhooks
get_form_webhooks(id) ==
    /\ Invoke("get_form_webhooks", [id |-> id])
    /\ fetch_url(<<"/", "f", "o", "r", "m", "/">> \o id \o <<"/", "w", "e", "b", "h", "o", "o", "k", "s">>,
                 NoParams, "GET")

\* JotformAPIClient.create_form_webhook
create_form_webhook(id, webhook_url) ==
    /\ Invoke("create_form_webhook", [id |-> id, webhook_url |-> webhook_url])
    /\ fetch_url(<<"/", "f", "o", "r", "m", "/">> \o id \o <<"/", "w", "e", "b", "h", "o", "o", "k", "s">>,
                 DictParams(<<"w", "e", "b", "h", "o", "o", "k", "U", "R", "L">> :> webhook_url), "POST")

\* JotformAPIClient.delete_form_webhook
delete_form_webhook(id, webhook_id) ==
    /\ Invoke("delete_form_webhook", [id |-> id, webhook_id |-> webhook_id])
    /\ fetch_url(<<"/", "f", "o", "r", "m", "/">> \o id \o <<"/", "w", "e", "b", "h", "o", "o", "k", "s", "/">> \o webhook_id,
                 NoParams, "DELETE")

\* JotformAPIClient.get_submission
get_submission(sid) ==
    /\ Invoke("get_submission", [sid |-> sid])
    /\ fetch_url(<<"/", "s", "u", "b", "m", "i", "s", "s", "i", "o", "n", "/">> \o sid,
                 NoParams, "GET")

\* JotformAPIClient.get_report
get_report(report_id) ==
    /\ Invoke("get_report", [report_id |-> report_id])
    /\ fetch_url(<<"/", "r", "e", "p", "o", "r", "t", "/">> \o report_id,
                 NoParams, "GET")

\* JotformAPIClient.get_folder
get_folder(folder_id) ==
    /\ Invoke("get_folder", [folder_id |-> folder_id])
    /\ fetch_url(<<"/", "f", "o", "l", "d", "e", "r", "/">> \o folder_id,
                 NoParams, "GET")

\* JotformAPIClient.get_form_properties
get_form_properties(form_id) ==
    /\ Invoke("get_form_properties", [form_id |-> form_id])
    /\ fetch_url(<<"/", "f", "o", "r", "m", "/">> \o form_id \o <<"/", "p", "r", "o", "p", "e", "r", "t", "i", "e", "s">>,
                 NoParams, "GET")

\* JotformAPIClient.get_form_property
get_form_property(form_id, property_key) ==
    /\ Invoke("get_form_property", [form_id |-> form_id, property_key |-> property_key])
    /\ fetch_url(<<"/", "f", "o", "r", "m", "/">> \o form_id \o <<"/", "p", "r", "o", "p", "e", "r", "t", "i", "e", "s", "/">> \o property_key,
                 NoParams, "GET")

\* JotformAPIClient.get_form_reports
get_form_reports(form_id) ==
    /\ Invoke("get_form_reports", [form_id |-> form_id])
    /\ fetch_url(<<"/", "f", "o", "r", "m", "/">> \o form_id \o <<"/", "r", "e", "p", "o", "r", "t", "s">>,
                 NoParams, "GET")

\* JotformAPIClient.create_report
create_report(form_id, report) ==
    /\ Invoke("create_report", [form_id |-> form_id, report |-> report])
    /\ fetch_url(<<"/", "f", "o", "r", "m", "/">> \o form_id \o <<"/", "r", "e", "p", "o", "r", "t", "s">>,
                 report, "POST")

\* JotformAPIClient.delete_submission
delete_submission(sid) ==
    /\ Invoke("delete_submission", [sid |-> sid])
    /\ fetch_url(<<"/", "s", "u", "b", "m", "i", "s", "s", "i", "o", "n", "/">> \o sid,
                 NoParams, "DELETE")

\* JotformAPIClient.edit_submission
edit_submission(sid, submission) ==
    /\ Invoke("edit_submission", [sid |-> sid, submission |-> submission])
    /\ fetch_url(<<"/", "s", "u", "b", "m", "i", "s", "s", "i", "o", "n", "/">> \o sid,
                 DictParams(EditSubmissionLoop(submission, EmptyDict)), "POST")

\* JotformAPIClient.clone_form
clone_form(form_id) ==
    /\ Invoke("clone_form", [form_id |-> form_id])
    /\ fetch_url(<<"/", "f", "o", "r", "m", "/">> \o form_id \o <<"/", "c", "l", "o", "n", "e">>,
                 DictParams(<<"m", "e", "t", "h", "o", "d">> :> <<"p", "o", "s", "t">>), "POST")

\* JotformAPIClient.delete_form_question
delete_form_question(form_id, qid) ==
    /\ Invoke("delete_form_question", [form_id |-> form_id, qid |-> qid])
    /\ fetch_url(<<"/", "f", "o", "r", "m", "/">> \o form_id \o <<"/", "q", "u", "e", "s", "t", "i", "o", "n", "/">> \o qid,
                 NoParams, "DELETE")

\* JotformAPIClient.create_form_question
create_form_question(form_id, question) ==
    /\ Invoke("create_form_question", [form_id |-> form_id, question |-> question])
    /\ fetch_url(<<"/", "f", "o", "r", "m", "/">> \o form_id \o <<"/", "q", "u", "e", "s", "t", "i", "o", "n", "s">>,
                 DictParams(BracketLoop(<<"q", "u", "e", "s", "t", "i", "o", "n">>, question, EmptyDict)), "POST")

\* JotformAPIClient.create_form_questions
create_form_questions(form_id, questions) ==
    /\ Invoke("create_form_questions", [form_id |-> form_id, questions |-> questions])
    /\ fetch_url(<<"/", "f", "o", "r", "m", "/">> \o form_id \o <<"/", "q", "u", "e", "s", "t", "i", "o", "n", "s">>,
                 questions, "PUT")

\* JotformAPIClient.edit_form_question
edit_form_question(form_id, qid, question_properties) ==
    /\ Invoke("edit_form_question", [form_id |-> form_id, qid |-> qid, question_properties |-> question_properties])
    /\ fetch_url(<<"/", "f", "o", "r", "m", "/">> \o form_id \o <<"/", "q", "u", "e", "s", "t", "i", "o", "n", "/">> \o qid,
                 DictParams(BracketLoop(<<"q", "u", "e", "s", "t", "i", "o", "n">>, question_properties, EmptyDict)), "POST")

\* JotformAPIClient.set_form_properties
set_form_properties(form_id, form_properties) ==
    /\ Invoke("set_form_properties", [form_id |-> form_id, form_properties |-> form_properties])
    /\ fetch_url(<<"/", "f", "o", "r", "m", "/">> \o form_id \o <<"/", "p", "r", "o", "p", "e", "r", "t", "i", "e", "s">>,
                 DictParams(BracketLoop(<<"p", "r", "o", "p", "e", "r", "t", "i", "e", "s">>, form_properties, EmptyDict)), "POST")

\* JotformAPIClient.set_multiple_form_properties
set_multiple_form_properties(form_id, form_properties) ==
    /\ Invoke("set_multiple_form_properties", [form_id |-> form_id, form_properties |-> form_properties])
    /\ fetch_url(<<"/", "f", "o", "r", "m", "/">> \o form_id \o <<"/", "p", "r", "o", "p", "e", "r", "t", "i", "e", "s">>,
                 form_properties, "PUT")

\* JotformAPIClient.create_form
create_form(form) ==
    /\ Invoke("create_form", [form |-> form])
    /\ fetch_url(<<"/", "u", "s", "e", "r", "/", "f", "o", "r", "m", "s">>,
                 DictParams(CreateFormLoop(form, EmptyDict)), "POST")

\* JotformAPIClient.create_forms
create_forms(form) ==
    /\ Invoke("create_forms", [form |-> form])
    /\ fetch_url(<<"/", "u", "s", "e", "r", "/", "f", "o", "r", "m", "s">>,
                 form, "PUT")

\* JotformAPIClient.delete_form
delete_form(form_id) ==
    /\ Invoke("delete_form", [form_id |-> form_id])
    /\ fetch_url(<<"/", "f", "o", "r", "m", "/">> \o form_id,
                 NoParams, "DELETE")

\* JotformAPIClient.register_user
register_user(userDetails) ==
    /\ Invoke("register_user", [userDetails |-> userDetails])
    /\ fetch_url(<<"/", "u", "s", "e", "r", "/", "r", "e", "g", "i", "s", "t", "e", "r">>,
                 userDetails, "POST")

\* JotformAPIClient.login_user
login_user(credentials) ==
    /\ Invoke("login_user", [credentials |-> credentials])
    /\ fetch_url(<<"/", "u", "s", "e", "r", "/", "l", "o", "g", "i", "n">>,
                 credentials, "POST")

\* JotformAPIClient.logout_user
logout_user ==
    /\ Invoke("logout_user", <<>>)
    /\ fetch_url(<<"/", "u", "s", "e", "r", "/", "l", "o", "g", "o", "u", "t">>,
                 NoParams, "GET")

\* JotformAPIClient.get_plan
get_plan(plan_name) ==
    /\ Invoke("get_plan", [plan_name |-> plan_name])
    /\ fetch_url(<<"/", "s", "y", "s", "t", "e", "m", "/", "p", "l", "a", "n", "/">> \o plan_name,
                 NoParams, "GET")

\* JotformAPIClient.delete_report
delete_report(reportID) ==
    /\ Invoke("delete_report", [reportID |-> reportID])
    /\ fetch_url(<<"/", "r", "e", "p", "o", "r", "t", "/">> \o reportID,
                 NoParams, "DELETE")

\* a caller can invoke an operation: no call is in progress (the client is
\* synchronous) and the caller has calls left
CanInvoke == pc = "idle" /\ nCalls < MaxCalls

(***************************************************************************)
(* The client under any caller: operations one after the other, each       *)
(* answered by the HTTP layer                                              *)
(***************************************************************************)

Next ==
    \/ get_user
    \/ get_usage
    \/ CanInvoke /\ (\E offset \in Offsets, limit \in Limits, filters \in Filters, order_by \in OrderBys :
           get_forms(offset, limit, filters, order_by))
    \/ CanInvoke /\ (\E offset \in Offsets, limit \in Limits, filters \in Filters, order_by \in OrderBys :
           get_submissions(offset, limit, filters, order_by))
    \/ get_subusers
    \/ get_folders
    \/ get_reports
    \/ get_settings
    \/ CanInvoke /\ (\E settings \in Bags :
           update_settings(settings))
    \/ CanInvoke /\ (\E action \in Actions, date \in Dates, sort_by \in SortBys, start_date \in StartDates, end_date \in EndDates :
           get_history(action, date, sort_by, start_date, end_date))
    \/ CanInvoke /\ (\E id \in Ids :
           get_form(id))
    \/ CanInvoke /\ (\E id \in Ids :
           get_form_questions(id))
    \/ CanInvoke /\ (\E id \in Ids, qid \in Ids :
           get_form_question(id, qid))
    \/ CanInvoke /\ (\E id \in Ids, offset \in Offsets, limit \in Limits, filters \in Filters, order_by \in OrderBys :
           get_form_submissions(id, offset, limit, filters, order_by))
    \/ CanInvoke /\ (\E id \in Ids, submission \in SampleSubmissions :
           create_form_submission(id, submission))
    \/ CanInvoke /\ (\E id \in Ids, submissions \in JsonTexts :
           create_form_submissions(id, submissions))
    \/ CanInvoke /\ (\E formID \in Ids :
           get_form_files(formID))
    \/ CanInvoke /\ (\E id \in Ids :
           get_form_webhooks(id))
    \/ CanInvoke /\ (\E id \in Ids, webhook_url \in Values :
           create_form_webhook(id, webhook_url))
    \/ CanInvoke /\ (\E id \in Ids, webhook_id \in Ids :
           delete_form_webhook(id, webhook_id))
    \/ CanInvoke /\ (\E sid \in Ids :
           get_submission(sid))
    \/ CanInvoke /\ (\E report_id \in Ids :
           get_report(report_id))
    \/ CanInvoke /\ (\E folder_id \in Ids :
           get_folder(folder_id))
    \/ CanInvoke /\ (\E form_id \in Ids :
           get_form_properties(form_id))
    \/ CanInvoke /\ (\E form_id \in Ids, property_key \in Ids :
           get_form_property(form_id, property_key))
    \/ CanInvoke /\ (\E form_id \in Ids :
           get_form_reports(form_id))
    \/ CanInvoke /\ (\E form_id \in Ids, report \in Bags :
           create_report(form_id, report))
    \/ CanInvoke /\ (\E sid \in Ids :
           delete_submission(sid))
    \/ CanInvoke /\ (\E sid \in Ids, submission \in SampleSubmissions :
           edit_submission(sid, submission))
    \/ CanInvoke /\ (\E form_id \in Ids :
           clone_form(form_id))
    \/ CanInvoke /\ (\E form_id \in Ids, qid \in Ids :
           delete_form_question(form_id, qid))
    \/ CanInvoke /\ (\E form_id \in Ids, question \in SampleDicts :
           create_form_question(form_id, question))
    \/ CanInvoke /\ (\E form_id \in Ids, questions \in JsonTexts :
           create_form_questions(form_id, questions))
    \/ CanInvoke /\ (\E form_id \in Ids, qid \in Ids, question_properties \in SampleDicts :
           edit_form_question(form_id, qid, question_properties))
    \/ CanInvoke /\ (\E form_id \in Ids, form_properties \in SampleDicts :
           set_form_properties(form_id, form_properties))
    \/ CanInvoke /\ (\E form_id \in Ids, form_properties \in JsonTexts :
           set_multiple_form_properties(form_id, form_properties))
    \/ CanInvoke /\ (\E form \in SampleForms :
           create_form(form))
    \/ CanInvoke /\ (\E form \in JsonTexts :
           create_forms(form))
    \/ CanInvoke /\ (\E form_id \in Ids :
           delete_form(form_id))
    \/ CanInvoke /\ (\E userDetails \in Bags :
           register_user(userDetails))
    \/ CanInvoke /\ (\E credentials \in Bags :
           login_user(credentials))
    \/ logout_user
    \/ CanInvoke /\ (\E plan_name \in Ids :
           get_plan(plan_name))
    \/ CanInvoke /\ (\E reportID \in Ids :
           delete_report(reportID))
    \/ RequestFails
    \/ ResponseNotJson
    \/ pc = "waiting" /\ (\E json_response \in JsonResponses : ResponseJson(json_response))

Spec == Init /\ [][Next]_vars

(***************************************************************************)
(* The submission operations on every submission within the bounds: one   *)
(* call of create_form_submission or edit_submission, then its answer     *)
(***************************************************************************)

NextSubmission ==
    \/ CanInvoke /\ (\E submission \in Submissions :
           nCalls = 0 /\ create_form_submission(<<"1", "2", "3">>, submission))
    \/ CanInvoke /\ (\E submission \in Submissions :
           nCalls = 0 /\ edit_submission(<<"4", "5", "6">>, submission))
    \/ RequestFails
    \/ ResponseNotJson
    \/ pc = "waiting" /\ (\E json_response \in JsonResponses : ResponseJson(json_response))

SpecSubmission == Init /\ [][NextSubmission]_vars

(***************************************************************************)
(* One client used by several threads: every operation, and calls that    *)
(* wait in requests.request while other threads' calls start and end      *)
(***************************************************************************)

NextThreads ==
    \/ Next
    \/ Yield
    \/ pc = "idle" /\ (\E i \in 1..Len(blocked) : Resume(i))

SpecThreads == Init /\ [][NextThreads]_vars

(***************************************************************************)
(* create_form on every form within the bounds: one call, then its answer *)
(***************************************************************************)

NextForm ==
    \/ CanInvoke /\ nCalls = 0 /\ (\E form \in Forms : create_form(form))
    \/ RequestFails
    \/ ResponseNotJson
    \/ pc = "waiting" /\ (\E json_response \in JsonResponses : ResponseJson(json_response))

SpecForm == Init /\ [][NextForm]_vars

(***************************************************************************)
(* Properties                                                              *)
(***************************************************************************)

\* a request is in flight: fetch_url has sent it and waits for the answer
InFlight == pc = "waiting"

\* C1: every request goes to the origin followed by the version segment v1,
\* then the resource path, and get_form_questions("123") requests a URL that
\* ends in /v1/form/123/questions.json.
C1_VersionSegmentInUrl ==
    InFlight =>
        /\ StartsWith(request.url, base_url \o api_version \o <<"/">>)
        /\ (op = "get_form_questions" /\ args.id = <<"1", "2", "3">>
              => EndsWith(request.url, <<"/", "v", "1", "/", "f", "o", "r", "m", "/", "1", "2", "3", "/", "q", "u", "e", "s", "t", "i", "o", "n", "s", ".", "j", "s", "o", "n">>))

\* the key the flattening is to give the submission key k: submission[p][s]
\* with p before and s after the first underscore, submission[k] without one
SplitsAtFirstUnderscore(k, p, s) ==
    /\ k = p \o <<"_">> \o s
    /\ \A i \in 1..Len(p) : p[i] # "_"

IsFlattenedKey(k, out) ==
    IF \E i \in 1..Len(k) : k[i] = "_"
    THEN \E i \in 1..Len(k) :
            /\ SplitsAtFirstUnderscore(k, SubSeq(k, 1, i - 1), SubSeq(k, i + 1, Len(k)))
            /\ out = <<"s", "u", "b", "m", "i", "s", "s", "i", "o", "n", "[">> \o SubSeq(k, 1, i - 1) \o <<"]", "[">>
                     \o SubSeq(k, i + 1, Len(k)) \o <<"]">>
    ELSE out = <<"s", "u", "b", "m", "i", "s", "s", "i", "o", "n", "[">> \o k \o <<"]">>

SubmissionCall == InFlight /\ op \in {"create_form_submission", "edit_submission"}

\* C2: create_form_submission and edit_submission send, for every submission
\* key other than created_at, the key submission[p][s] split at the first
\* underscore (submission[k] for a key without underscore), with the value
\* the submission gives that key.
C2_KeysSplitAtFirstUnderscore ==
    SubmissionCall =>
        \A i \in 1..Len(args.submission) :
            LET k == args.submission[i][1]
                v == args.submission[i][2]
            IN  k # <<"c", "r", "e", "a", "t", "e", "d", "_", "a", "t">> =>
                    \E out \in DOMAIN request.params.items :
                        /\ IsFlattenedKey(k, out)
                        /\ request.params.items[out] = v

\* C2 witness: create_form_submission in flight with a key of two underscores
\* and a key of none, flattened to submission[][_] and submission[a]
C2_Witness ==
    /\ InFlight
    /\ op = "create_form_submission"
    /\ args.submission = << <<<<"_", "_">>, <<"x">>>>, <<<<"a">>, <<"y">>>> >>
    /\ request.params.items = (<<"s", "u", "b", "m", "i", "s", "s", "i", "o", "n", "[", "]", "[", "_", "]">> :> <<"x">>) @@ (<<"s", "u", "b", "m", "i", "s", "s", "i", "o", "n", "[", "a", "]">> :> <<"y">>)

\* C3: both submission operations keep created_at whole: the request has the
\* key submission[created_at] with its value, and not submission[created][at].
C3_CreatedAtIsAtomic ==
    SubmissionCall =>
        \A i \in 1..Len(args.submission) :
            args.submission[i][1] = <<"c", "r", "e", "a", "t", "e", "d", "_", "a", "t">> =>
                /\ <<"s", "u", "b", "m", "i", "s", "s", "i", "o", "n", "[", "c", "r", "e", "a", "t", "e", "d", "_", "a", "t", "]">> \in DOMAIN request.params.items
                /\ request.params.items[<<"s", "u", "b", "m", "i", "s", "s", "i", "o", "n", "[", "c", "r", "e", "a", "t", "e", "d", "_", "a", "t", "]">>] = args.submission[i][2]
                /\ <<"s", "u", "b", "m", "i", "s", "s", "i", "o", "n", "[", "c", "r", "e", "a", "t", "e", "d", "]", "[", "a", "t", "]">> \notin DOMAIN request.params.items

ListCall == InFlight /\ op \in {"get_forms", "get_submissions", "get_form_submissions"}

\* C4: the bag create_conditions returns has offset, limit and orderby only
\* for the arguments that are set, has filter (the JSON encoding of filters)
\* exactly when filters is neither None nor empty, and is empty when all four
\* arguments are None.
C4_ConditionsOmitUnset ==
    ListCall =>
        LET items == request.params.items
        IN  /\ <<"o", "f", "f", "s", "e", "t">> \in DOMAIN items => args.offset # PyNone
            /\ <<"l", "i", "m", "i", "t">> \in DOMAIN items => args.limit # PyNone
            /\ <<"o", "r", "d", "e", "r", "b", "y">> \in DOMAIN items => args.order_by # PyNone
            /\ <<"f", "i", "l", "t", "e", "r">> \in DOMAIN items <=> DictTruthy(args.filters)
            /\ <<"f", "i", "l", "t", "e", "r">> \in DOMAIN items => items[<<"f", "i", "l", "t", "e", "r">>] = JsonDumps(args.filters)
            /\ (/\ args.offset = PyNone
                /\ args.limit = PyNone
                /\ args.order_by = PyNone
                /\ args.filters = NoneDict) => items = EmptyDict

\* the keys of the history bag for the arguments that are set
SuppliedHistoryKeys(a) ==
    {k \in {<<"a", "c", "t", "i", "o", "n">>, <<"d", "a", "t", "e">>, <<"s", "o", "r", "t", "_", "b", "y">>, <<"s", "t", "a", "r", "t", "D", "a", "t", "e">>, <<"e", "n", "d", "D", "a", "t", "e">>} :
        \/ k = <<"a", "c", "t", "i", "o", "n">> /\ a.action # PyNone
        \/ k = <<"d", "a", "t", "e">> /\ a.date # PyNone
        \/ k = <<"s", "o", "r", "t", "_", "b", "y">> /\ a.sort_by # PyNone
        \/ k = <<"s", "t", "a", "r", "t", "D", "a", "t", "e">> /\ a.start_date # PyNone
        \/ k = <<"e", "n", "d", "D", "a", "t", "e">> /\ a.end_date # PyNone}

\* C5: the keys of the bag get_history passes to fetch_url are exactly those
\* of the optional arguments that were supplied; get_history(action="all")
\* passes {action: "all"}.
C5_HistoryKeysAreSupplied ==
    (InFlight /\ op = "get_history") =>
        DOMAIN request.params.items = SuppliedHistoryKeys(args)

\* the final segment of a resource path: what follows its last slash
FinalSegment(path) == SliceFrom(path, RFind(path, "/") + 1)

\* C6: for a resource path whose final segment contains a dot and which does
\* not end in .json, the requested URL ends in the whole resource path
\* followed by .json: no character of the path is removed or replaced.
C6_DottedSegmentKept ==
    (/\ InFlight
     /\ Contains(FinalSegment(resource), ".")
     /\ ~EndsWith(resource, <<".", "j", "s", "o", "n">>))
        => EndsWith(request.url, resource \o <<".", "j", "s", "o", "n">>)

\* C7: the suffix step leaves a resource path that already ends in .json as
\* it is (the requested URL ends in the resource path and never in
\* .json.json), and a second application changes nothing.
C7_SuffixIdempotent ==
    InFlight =>
        /\ EndsWith(resource, <<".", "j", "s", "o", "n">>) =>
               /\ EndsWith(request.url, resource)
               /\ ~EndsWith(request.url, <<".", "j", "s", "o", "n", ".", "j", "s", "o", "n">>)
        /\ Endpoint(Endpoint(resource)) = Endpoint(resource)

\* C8: when the HTTP layer answers with a JSON object, fetch_url returns the
\* value under its content key whatever the other fields are, and None,
\* without an error, when the object has no content key; it returns nothing
\* else.
C8_ReturnsContent ==
    /\ (response.status = "json" /\ response.json_response.object) =>
           LET fields == response.json_response.fields
           IN  /\ result.kind = "returned"
               /\ "content" \in DOMAIN fields => result.value = fields["content"]
               /\ "content" \notin DOMAIN fields => result.value = "None"
    /\ result.kind = "returned" =>
           response.status = "json" /\ response.json_response.object

\* C8 witness: an object with a message and no content was answered, and the
\* call returned None
C8_Witness ==
    /\ response.status = "json"
    /\ response.json_response.object
    /\ DOMAIN response.json_response.fields = {"message"}
    /\ result = Returned("None")

\* the API key is no key and no value of the params, nor the params' text
KeyNotInParams(params) ==
    /\ \A k \in DOMAIN params.items :
           k # <<"a", "p", "i", "K", "e", "y">> /\ k # api_key /\ params.items[k] # api_key
    /\ params.text # api_key

\* C9: every request, whatever its verb, carries the client's API key in the
\* header apiKey and nowhere in its params.
C9_ApiKeyInHeader ==
    InFlight =>
        /\ request.method \in {"GET", "POST", "PUT", "DELETE"}
        /\ request.headers = [apiKey |-> api_key]
        /\ api_key \in ApiKeys
        /\ KeyNotInParams(request.params)

\* C9 witness: a PUT request with a payload in flight, with the key in its
\* header
C9_Witness ==
    /\ InFlight
    /\ request.method = "PUT"
    /\ request.params.kind = "str"
    /\ request.headers.apiKey = <<"K", "E", "Y", "2">>
    /\ api_key = <<"K", "E", "Y", "2">>

\* C10: the requests issued are as many as the operations invoked; a call
\* that has been invoked and has not ended has its one request in flight,
\* and every other call has ended (returned or raised) after its request was
\* answered or failed.
C10_OneRequestPerCall ==
    /\ nSent = nCalls
    /\ InFlight <=> request # NoRequest
    /\ nDone = IF InFlight THEN nCalls - 1 ELSE nCalls
    /\ (~InFlight /\ nCalls > 0) => result.kind \in {"returned", "raised"}

\* C10 witness: two calls were made, the second failed in the transport, and
\* two requests were sent
C10_Witness ==
    /\ nCalls = 2
    /\ nDone = 2
    /\ nSent = 2
    /\ result = Raised("RequestException")


\* C11: no step of any operation, of its success or its failure (transport
\* error, body that is no JSON, JSON value without get), and no switch
\* between threads that use the client, writes api_key or debug_mode: both
\* keep the values __init__ gave them. Every call that waits on another
\* thread still carries that key, and once no call is in progress nothing of
\* a call is left.
C11_ConfigurationOnlyWrittenAtConstruction ==
    [][ /\ api_key' = api_key
        /\ debug_mode' = debug_mode
        /\ \A i \in 1..Len(blocked') : blocked'[i].request.headers.apiKey = api_key'
        /\ (pc' = "idle" /\ blocked' = <<>>) =>
               /\ op' = "none"
               /\ args' = <<>>
               /\ resource' = <<>>
               /\ request' = NoRequest ]_vars

\* C11 witness: a logout waits on one thread with the client's key in its
\* header, after another thread's call on the same client ended with an
\* error of the decoder
C11_Witness ==
    /\ pc = "idle"
    /\ Len(blocked) = 1
    /\ blocked[1].op = "logout_user"
    /\ blocked[1].request.headers.apiKey = api_key
    /\ nCalls = 2
    /\ nDone = 1
    /\ result = Raised("JSONDecodeError")
    /\ api_key = <<"K", "E", "Y", "1">>
    /\ debug_mode

FormCall == InFlight /\ op = "create_form"

\* the <<key, value>> pairs a form is to be flattened to: properties[k] for
\* every key k of the group properties, and g[f][p] for every property p of
\* every field f of every other group g
PropertiesEntries(g, value) ==
    {<<g \o <<"[">> \o value[j][1] \o <<"]">>, value[j][2]>> : j \in 1..Len(value)}

FieldEntries(g, f, v) ==
    {<<g \o <<"[">> \o f \o <<"]", "[">> \o v[l][1] \o <<"]">>, v[l][2]>> : l \in 1..Len(v)}

GroupEntries(g, value) ==
    IF g = <<"p", "r", "o", "p", "e", "r", "t", "i", "e", "s">> THEN PropertiesEntries(g, value)
    ELSE UNION {FieldEntries(g, value[j][1], value[j][2]) : j \in 1..Len(value)}

FormEntries(form) == UNION {GroupEntries(form[i][1], form[i][2]) : i \in 1..Len(form)}

\* C12: the bag create_form sends has, for every group g other than
\* properties, every field f of g and every property p of f, the key g[f][p]
\* with the leaf value, for every key k of the group properties the key
\* properties[k] with its value, and no other key; a group without keys and
\* a field without properties add nothing.
C12_FormFlattenedToBracketKeys ==
    FormCall =>
        /\ request.params.kind = "dict"
        /\ DOMAIN request.params.items = {e[1] : e \in FormEntries(args.form)}
        /\ \A e \in FormEntries(args.form) : request.params.items[e[1]] = e[2]

\* C12 witness: create_form in flight for a form with a group of one
\* field, the group properties and a group without keys
C12_Witness ==
    /\ FormCall
    /\ args.form = << <<<<"q", "u", "e", "s", "t", "i", "o", "n", "s">>, << <<<<"0">>, << <<<<"t", "y", "p", "e">>, <<"x">>>> >> >> >> >>,
                      <<<<"p", "r", "o", "p", "e", "r", "t", "i", "e", "s">>, << <<<<"t", "e", "x", "t">>, <<"y">>>> >> >>,
                      <<<<"e", "m", "a", "i", "l", "s">>, <<>> >> >>
    /\ request.params.items = (<<"q", "u", "e", "s", "t", "i", "o", "n", "s", "[", "0", "]", "[", "t", "y", "p", "e", "]">> :> <<"x">>)
                              @@ (<<"p", "r", "o", "p", "e", "r", "t", "i", "e", "s", "[", "t", "e", "x", "t", "]">> :> <<"y">>)

====
